---------------------------- MODULE Spec2Model ----------------------------
(***************************************************************************)
(* Model of lib/vmBackupLib/stateMachine.c: the asynchronous backup state  *)
(* machine (Start -> OnFreeze -> sync provider -> OnThaw -> Finalize).     *)
(*                                                                         *)
(* The program is single threaded: every RpcIn handler and every event     *)
(* manager callback runs to completion, so each is one atomic action.      *)
(* Handlers are written as transformers of a "world" record w holding the  *)
(* session (gBackupState), the event queue, the outbound event log and     *)
(* the bookkeeping of suboperation objects; an action commits the final    *)
(* world to the variables.                                                 *)
(***************************************************************************)
EXTENDS Integers, Sequences, FiniteSets, TLC

(* ------------------------------ bounds -------------------------------- *)

\* RpcIn commands delivered in one run.
MaxCmds == 3

\* Outbound events remembered per session; older ones are dropped.
MaxLog == 3

\* Keep-alive timer firings in one run.
MaxKeepAlives == 1

\* Operations/callbacks the sync provider installs in one session.
MaxProviderSteps == 1

\* Characters in one line of the configuration file.
MaxLineLen == 2

\* Lines in the configuration file.
MaxCfgLines == 2

(* ----------------------- program constants ---------------------------- *)

VMBACKUP_SUCCESS == 0
VMBACKUP_INVALID_STATE == 1
VMBACKUP_SCRIPT_ERROR == 2
VMBACKUP_SYNC_ERROR == 3
VMBACKUP_REMOTE_ABORT == 4
VMBACKUP_UNEXPECTED_ERROR == 5

\* Initial value of pollPeriod and the value set when the provider concludes.
InitialPollPeriod == 100
ConcludedPollPeriod == 100

\* Outbound event names.
VMBACKUP_EVENT_RESET == "reset"
VMBACKUP_EVENT_KEEP_ALIVE == "keepAlive"
VMBACKUP_EVENT_REQUESTOR_DONE == "req.done"
VMBACKUP_EVENT_REQUESTOR_ERROR == "req.error"
VMBACKUP_EVENT_REQUESTOR_ABORT == "req.aborted"

\* Script phases.
VMBACKUP_SCRIPT_FREEZE == "FREEZE"
VMBACKUP_SCRIPT_FREEZE_FAIL == "FREEZE_FAIL"
VMBACKUP_SCRIPT_THAW == "THAW"

\* Suboperation status.
VMBACKUP_STATUS_PENDING == "pending"
VMBACKUP_STATUS_FINISHED == "finished"
VMBACKUP_STATUS_ERROR == "error"

\* Null pointers: a null session, and a null callback / operation / name.
NoSession == [null |-> TRUE]
NULL == "NULL"

\* Messages returned by the RpcIn handlers.
MsgAlreadyInProgress == "Backup operation already in progress."
MsgConfigError == "Error when reading configuration file."
MsgInitError == "Error initializing backup."
MsgNoBackup == "Error: no backup in progress"

(* ------------------------------ state --------------------------------- *)

VARIABLES
  gBackupState,   \* the session, or NoSession
  gEventQueue,    \* [poll, keepAlive]: timers scheduled, per callback
  events,         \* outbound events of the current (or last) session
  truncated,      \* events older than MaxLog were dropped from the log
  opStatus,       \* status of the operation object behind currentOp
  liveOps,        \* operation objects created and not yet released
  doubleStart,    \* an operation was installed over a non-null currentOp
  provSteps,      \* operations/callbacks the provider installed so far
  provStarts,     \* successful gSyncProvider->start calls in the session
  last,           \* [handler, sent, calls]: the handler that ran last, the
                  \* events it sent, the external calls it made and the
                  \* callback failures it saw
  nAlloc,         \* session objects allocated by VmBackupStart
  nFinalize,      \* calls of VmBackupFinalize
  nDone,          \* "req.done" events sent, over the whole run
  nStartOk,       \* VmBackupStart commands that returned success
  abortAccepted,  \* VmBackupAbort succeeded on the current (or last) session
  rpc,            \* [name, ok, msg]: the last RpcIn command and its reply
  nCmds,          \* RpcIn commands delivered
  nKeepAlives,    \* keep-alive firings
  assertFailed,   \* an ASSERT of the program failed (the process is gone)
  shutDown,       \* VmBackup_Shutdown ran: the handlers are unregistered
  cfgPhase,       \* VmBackupReadConfig: "idle", "start", "reading", "done"
  cfgRead,        \* the lines StdIO_ReadNextLine returned so far
  disabledTargets,\* state->disabledTargets
  cfgRet,         \* the value VmBackupReadConfig returned, NULL before
  cfgFault        \* what the run of VmBackupReadConfig met

\* The state of one run of VmBackupReadConfig.
cfgVars == <<cfgPhase, cfgRead, disabledTargets, cfgRet, cfgFault>>

\* The state of the backup state machine.
smVars == <<gBackupState, gEventQueue, events, truncated, opStatus, liveOps,
            doubleStart, provSteps, nAlloc, nFinalize, nDone, nStartOk,
            abortAccepted, rpc,
            nCmds, nKeepAlives, assertFailed, provStarts, last, shutDown>>

vars == <<smVars, cfgVars>>

\* The part of the state the handlers' helpers transform.
World ==
  [st |-> gBackupState, evq |-> gEventQueue, log |-> events,
   trunc |-> truncated, status |-> opStatus, live |-> liveOps,
   dbl |-> doubleStart, steps |-> provSteps, fin |-> nFinalize,
   done |-> nDone, starts |-> provStarts, sent |-> <<>>, calls |-> {}]

Commit(w) ==
  /\ gBackupState' = w.st
  /\ gEventQueue' = w.evq
  /\ events' = w.log
  /\ truncated' = w.trunc
  /\ opStatus' = w.status
  /\ liveOps' = w.live
  /\ doubleStart' = w.dbl
  /\ provSteps' = w.steps
  /\ nFinalize' = w.fin
  /\ nDone' = w.done
  /\ provStarts' = w.starts

\* The handler `handler` ran and ended in world w.
Ran(handler, w) ==
  last' = [handler |-> handler, sent |-> w.sent, calls |-> w.calls]

\* The handler `handler` ran, sent nothing and called nothing.
RanIdle(handler) ==
  last' = [handler |-> handler, sent |-> <<>>, calls |-> {}]

\* An external call made by a handler.
Call(w, what) ==
  [w EXCEPT !.calls = @ \cup {what}]

\* memset(gBackupState, 0, ...) followed by the initial assignments.
NewState ==
  [pollPeriod |-> InitialPollPeriod,
   callback |-> NULL,
   currentOp |-> NULL,
   currentOpName |-> NULL,
   syncProviderRunning |-> FALSE,
   syncProviderFailed |-> FALSE,
   clientAborted |-> FALSE,
   snapshotDone |-> FALSE,
   forceRequeue |-> FALSE,
   scripts |-> FALSE,
   keepAlive |-> FALSE,
   timerEvent |-> FALSE]

SmInit ==
  /\ gBackupState = NoSession
  /\ gEventQueue = [poll |-> 0, keepAlive |-> 0]
  /\ events = <<>>
  /\ truncated = FALSE
  /\ opStatus = NULL
  /\ liveOps = 0
  /\ doubleStart = FALSE
  /\ provSteps = 0
  /\ nAlloc = 0
  /\ nFinalize = 0
  /\ nDone = 0
  /\ nStartOk = 0
  /\ abortAccepted = FALSE
  /\ rpc = [name |-> NULL, ok |-> TRUE, msg |-> ""]
  /\ nCmds = 0
  /\ nKeepAlives = 0
  /\ assertFailed = FALSE
  /\ provStarts = 0
  /\ last = [handler |-> NULL, sent |-> <<>>, calls |-> {}]
  /\ shutDown = FALSE

\* No configuration is being read.
CfgIdle ==
  /\ cfgPhase = "idle"
  /\ cfgRead = <<>>
  /\ disabledTargets = <<>>
  /\ cfgRet = NULL
  /\ cfgFault = "none"

Init == SmInit /\ CfgIdle

(* ----------------------------- helpers -------------------------------- *)

\* RpcOut_sendOne: the event reaches the supervising process.
LogEvent(w, name, code) ==
  LET e == [name |-> name, code |-> code]
      d == IF name = VMBACKUP_EVENT_REQUESTOR_DONE THEN 1 ELSE 0
  IN IF Len(w.log) < MaxLog
       THEN [w EXCEPT !.log = Append(@, e), !.done = @ + d,
                      !.sent = Append(@, e)]
       ELSE [w EXCEPT !.log = Append(Tail(@), e), !.trunc = TRUE,
                      !.done = @ + d, !.sent = Append(@, e)]

\* EventManager_Remove of the timer a handle points to.
RemoveKeepAlive(w) ==
  IF w.st.keepAlive
    THEN [w EXCEPT !.evq.keepAlive = @ - 1, !.st.keepAlive = FALSE]
    ELSE w

RemoveTimerEvent(w) ==
  IF w.st.timerEvent
    THEN [w EXCEPT !.evq.poll = @ - 1, !.st.timerEvent = FALSE]
    ELSE w

\* Mutant: the poll timer is scheduled twice.
EnqueueEventTwice(w) ==
  [w EXCEPT !.evq.poll = @ + 2, !.st.timerEvent = TRUE]

\* VMBACKUP_ENQUEUE_EVENT
EnqueueEvent(w) ==
  [w EXCEPT !.evq.poll = @ + 1, !.st.timerEvent = TRUE]

\* VmBackupSendEvent: restart the keep-alive timer around the send.
VmBackupSendEvent(w, name, code) ==
  LET w1 == RemoveKeepAlive(w)
      w2 == LogEvent(w1, name, code)
  IN [w2 EXCEPT !.evq.keepAlive = @ + 1, !.st.keepAlive = TRUE]

\* VmBackup_Release(op) of the current operation object.
VmBackup_Release(w) ==
  [w EXCEPT !.live = @ - 1, !.status = NULL]

\* Mutant: the handle is not cleared after the release.
ReleaseCurrentOpKeepsHandle(w) ==
  VmBackup_Release(w)

\* VmBackup_Release(currentOp); currentOp = NULL;
ReleaseCurrentOp(w) ==
  [VmBackup_Release(w) EXCEPT !.st.currentOp = NULL]


(* ------------------- suboperations (vmBackupInt.h) --------------------- *)

\* VmBackup_SetCurrentOp(state, op, callback, currentOpName): installs op
\* (possibly null) with its continuation; the caller reads op # NULL as the
\* result.  A non-null op is a freshly created operation object.
VmBackup_SetCurrentOp(w, op, callback, currentOpName) ==
  [w EXCEPT !.dbl = @ \/ (w.st.currentOp # NULL),
            !.st.currentOp = op,
            !.st.callback = callback,
            !.st.currentOpName = currentOpName,
            !.st.forceRequeue = (callback # NULL /\ op = NULL),
            !.status = IF op # NULL THEN VMBACKUP_STATUS_PENDING ELSE @,
            !.live = IF op # NULL THEN @ + 1 ELSE @]

\* VmBackupNewScriptOp(type, state): the operation running the scripts of
\* one phase, or null when they cannot be started.  Scanning for the freeze
\* phase records whether a script set exists (state->scripts).
VmBackupNewScriptOp(w, type, scriptOk, haveScripts) ==
  [w |-> IF type = VMBACKUP_SCRIPT_FREEZE /\ scriptOk
           THEN [w EXCEPT !.st.scripts = haveScripts]
           ELSE w,
   op |-> IF scriptOk THEN type ELSE NULL]

(* --------------------------- stateMachine.c ---------------------------- *)

\* Mutant: Finalize tears the session down without sending "req.done".
VmBackupFinalizeNoDone(w) ==
  LET w1 == IF w.st.currentOp # NULL THEN VmBackup_Release(w) ELSE w
      w3 == RemoveTimerEvent(w1)
      w4 == RemoveKeepAlive(w3)
  IN [w4 EXCEPT !.st = NoSession, !.status = NULL, !.fin = @ + 1]

\* VmBackupFinalize
VmBackupFinalize(w) ==
  LET w0 == IF w.st.syncProviderRunning
              THEN Call(w, "finalize(running)")
              ELSE w
      w1 == IF w0.st.currentOp # NULL
              THEN VmBackup_Release(Call(w0, "op.cancel"))
              ELSE w0
      w2 == VmBackupSendEvent(w1, VMBACKUP_EVENT_REQUESTOR_DONE,
                              VMBACKUP_SUCCESS)
      w3 == RemoveTimerEvent(w2)
      w4 == RemoveKeepAlive(w3)
  IN [w4 EXCEPT !.st = NoSession, !.status = NULL, !.fin = @ + 1]

\* Mutant: every phase is given the name of the freeze scripts.
ScriptOpNameAlwaysFreeze(type) == "VmBackupOnFreeze"

\* The switch of VmBackupStartScripts: phase -> operation name.
ScriptOpName(type) ==
  CASE type = VMBACKUP_SCRIPT_FREEZE -> "VmBackupOnFreeze"
    [] type = VMBACKUP_SCRIPT_FREEZE_FAIL -> "VmBackupOnFreezeFail"
    [] type = VMBACKUP_SCRIPT_THAW -> "VmBackupOnThaw"

\* VmBackupStartScripts(type, callback): [w, ret].
VmBackupStartScripts(w, type, callback, scriptOk, haveScripts) ==
  LET n  == VmBackupNewScriptOp(w, type, scriptOk, haveScripts)
      w1 == VmBackup_SetCurrentOp(n.w, n.op, callback, ScriptOpName(type))
  IN IF n.op = NULL
       THEN [w |-> VmBackupSendEvent(w1, VMBACKUP_EVENT_REQUESTOR_ERROR,
                                     VMBACKUP_SCRIPT_ERROR),
             ret |-> FALSE]
       ELSE [w |-> w1, ret |-> TRUE]

(* ---------------------- the sync provider (abstract) ------------------- *)

\* What a provider call may do to the session besides returning a result:
\*   "none"    nothing
\*   "op"      VmBackup_SetCurrentOp(state, op, NULL, name)
\*   "opCb"    VmBackup_SetCurrentOp(state, op, next step, name)
\*   "requeue" VmBackup_SetCurrentOp(state, NULL, next step, name)
\*   "cb"      state->callback = next step
ProviderEffects(w) ==
  IF w.steps < MaxProviderSteps
    THEN {"none", "op", "opCb", "requeue", "cb"}
    ELSE {"none"}

ProviderApply(w, eff) ==
  CASE eff = "none" -> w
    [] eff = "op" ->
         [VmBackup_SetCurrentOp(w, "providerOp", NULL, "providerOp")
            EXCEPT !.steps = @ + 1]
    [] eff = "opCb" ->
         [VmBackup_SetCurrentOp(w, "providerOp", "ProviderStep", "providerOp")
            EXCEPT !.steps = @ + 1]
    [] eff = "requeue" ->
         [VmBackup_SetCurrentOp(w, NULL, "ProviderStep", "providerOp")
            EXCEPT !.steps = @ + 1]
    [] eff = "cb" ->
         [w EXCEPT !.st.callback = "ProviderStep", !.steps = @ + 1]

\* gSyncProvider->start(state, clientData): the possible [w, ret].
ProviderStart(w) ==
  LET w1 == Call(w, "provider.start")
      w2 == [w1 EXCEPT !.starts = @ + 1]
  IN {[w |-> w1, ret |-> FALSE]}
       \cup {[w |-> ProviderApply(w2, eff), ret |-> TRUE]
              : eff \in ProviderEffects(w2)}

\* A continuation the provider registered: the possible [w, ret].
ProviderStep(w) ==
  LET w1 == Call(w, "provider.step")
  IN {[w |-> w1, ret |-> FALSE]}
       \cup {[w |-> ProviderApply(w1, eff), ret |-> TRUE]
              : eff \in ProviderEffects(w1)}

\* VmBackupEnableSync(state): the possible [w, ret].
VmBackupEnableSync(w) ==
  {IF r.ret
     THEN [w |-> [r.w EXCEPT !.st.syncProviderRunning = TRUE], ret |-> TRUE]
     ELSE [w |-> VmBackupSendEvent(r.w, VMBACKUP_EVENT_REQUESTOR_ERROR,
                                   VMBACKUP_SYNC_ERROR),
           ret |-> FALSE]
   : r \in ProviderStart(w)}

\* cb(gBackupState) for the callback named cb.
InvokeCallback(cb, w) ==
  IF cb = "VmBackupEnableSync" THEN VmBackupEnableSync(w) ELSE ProviderStep(w)


(* ----------------------- VmBackupAsyncCallback ------------------------- *)

\* Mutant: the exit label reschedules without clearing forceRequeue.
TickExitKeepsForceRequeue(w, finalize) ==
  IF finalize
    THEN VmBackupFinalize(w)
    ELSE EnqueueEvent(w)

\* The exit label: finalize, or clear forceRequeue and schedule a tick.
TickExit(w, finalize) ==
  IF finalize
    THEN VmBackupFinalize(w)
    ELSE EnqueueEvent([w EXCEPT !.st.forceRequeue = FALSE])

\* What the loop saw when a callback returned FALSE: whether the provider
\* was running at that moment.
CallbackStopped(w) ==
  IF w.st.syncProviderRunning
    THEN "callback.stop(running)"
    ELSE "callback.stop(idle)"

\* Mutant: the loop leaves through "goto exit" after the first callback
\* that reports continue, whatever that callback installed.
RECURSIVE DrainStopsAtFirstSuccess(_, _)
DrainStopsAtFirstSuccess(w, fin) ==
  IF w.st.callback = NULL
    THEN {[w |-> w, fin |-> fin, exit |-> FALSE]}
    ELSE LET cb == w.st.callback
             w1 == [w EXCEPT !.st.callback = NULL]
         IN UNION {
              IF r.ret
                THEN {[w |-> r.w, fin |-> fin, exit |-> TRUE]}
                ELSE DrainStopsAtFirstSuccess(
                       Call([r.w EXCEPT !.st.syncProviderFailed =
                                           r.w.st.syncProviderRunning],
                            CallbackStopped(r.w)),
                       r.w.st.syncProviderFailed
                         \/ ~r.w.st.syncProviderRunning)
              : r \in InvokeCallback(cb, w1)}

\* The while loop over gBackupState->callback.  Yields every possible
\* [w, fin, exit]: the world after the loop, the value of finalize, and
\* whether the loop left through "goto exit".
RECURSIVE Drain(_, _)
Drain(w, fin) ==
  IF w.st.callback = NULL
    THEN {[w |-> w, fin |-> fin, exit |-> FALSE]}
    ELSE LET cb == w.st.callback
             w1 == [w EXCEPT !.st.callback = NULL]
         IN UNION {
              IF r.ret
                THEN IF r.w.st.currentOp # NULL \/ r.w.st.forceRequeue
                       THEN {[w |-> r.w, fin |-> fin, exit |-> TRUE]}
                       ELSE Drain(r.w, fin)
                ELSE Drain(Call([r.w EXCEPT !.st.syncProviderFailed =
                                               r.w.st.syncProviderRunning],
                                CallbackStopped(r.w)),
                           r.w.st.syncProviderFailed
                             \/ ~r.w.st.syncProviderRunning)
              : r \in InvokeCallback(cb, w1)}

\* Mutant: the conclusion starts the scripts but leaves syncProviderRunning
\* set.
ConcludeKeepsRunning(w, scriptOk) ==
  IF /\ w.st.syncProviderRunning
     /\ (w.st.snapshotDone \/ w.st.syncProviderFailed \/ w.st.clientAborted)
     /\ w.st.callback = NULL
    THEN LET w1 == [w EXCEPT !.st.pollPeriod = ConcludedPollPeriod]
             type == IF w1.st.syncProviderFailed \/ w1.st.clientAborted
                       THEN VMBACKUP_SCRIPT_FREEZE_FAIL
                       ELSE VMBACKUP_SCRIPT_THAW
         IN {TickExit(r.w, ~r.ret)
             : r \in {VmBackupStartScripts(w1, type, NULL, scriptOk, FALSE)}}
    ELSE {TickExit(w, /\ ~w.st.syncProviderRunning
                      /\ (w.st.callback = NULL \/ w.st.clientAborted))}

\* Mutant: the provider is concluded as soon as no callback is pending,
\* whatever the flags say.
ConcludeWithoutFlags(w, scriptOk) ==
  IF w.st.syncProviderRunning /\ w.st.callback = NULL
    THEN LET w1 == [w EXCEPT !.st.syncProviderRunning = FALSE,
                             !.st.pollPeriod = ConcludedPollPeriod]
             type == IF w1.st.syncProviderFailed \/ w1.st.clientAborted
                       THEN VMBACKUP_SCRIPT_FREEZE_FAIL
                       ELSE VMBACKUP_SCRIPT_THAW
         IN {TickExit(r.w, ~r.ret)
             : r \in {VmBackupStartScripts(w1, type, NULL, scriptOk, FALSE)}}
    ELSE {TickExit(w, /\ ~w.st.syncProviderRunning
                      /\ (w.st.callback = NULL \/ w.st.clientAborted))}

\* Mutant: the conclusion always runs the freeze-fail scripts.
ConcludeAlwaysFreezeFail(w, scriptOk) ==
  IF /\ w.st.syncProviderRunning
     /\ (w.st.snapshotDone \/ w.st.syncProviderFailed \/ w.st.clientAborted)
     /\ w.st.callback = NULL
    THEN LET w1 == [w EXCEPT !.st.syncProviderRunning = FALSE,
                             !.st.pollPeriod = ConcludedPollPeriod]
         IN {TickExit(r.w, ~r.ret)
             : r \in {VmBackupStartScripts(w1, VMBACKUP_SCRIPT_FREEZE_FAIL,
                                           NULL, scriptOk, FALSE)}}
    ELSE {TickExit(w, /\ ~w.st.syncProviderRunning
                      /\ (w.st.callback = NULL \/ w.st.clientAborted))}

\* Mutant: the conclusion always runs the thaw scripts.
ConcludeAlwaysThaw(w, scriptOk) ==
  IF /\ w.st.syncProviderRunning
     /\ (w.st.snapshotDone \/ w.st.syncProviderFailed \/ w.st.clientAborted)
     /\ w.st.callback = NULL
    THEN LET w1 == [w EXCEPT !.st.syncProviderRunning = FALSE,
                             !.st.pollPeriod = ConcludedPollPeriod]
         IN {TickExit(r.w, ~r.ret)
             : r \in {VmBackupStartScripts(w1, VMBACKUP_SCRIPT_THAW,
                                           NULL, scriptOk, FALSE)}}
    ELSE {TickExit(w, /\ ~w.st.syncProviderRunning
                      /\ (w.st.callback = NULL \/ w.st.clientAborted))}

\* Mutant: the conclusion picks the scripts by syncProviderFailed alone.
ConcludeIgnoresAbort(w, scriptOk) ==
  IF /\ w.st.syncProviderRunning
     /\ (w.st.snapshotDone \/ w.st.syncProviderFailed \/ w.st.clientAborted)
     /\ w.st.callback = NULL
    THEN LET w1 == [w EXCEPT !.st.syncProviderRunning = FALSE,
                             !.st.pollPeriod = ConcludedPollPeriod]
             type == IF w1.st.syncProviderFailed
                       THEN VMBACKUP_SCRIPT_FREEZE_FAIL
                       ELSE VMBACKUP_SCRIPT_THAW
         IN {TickExit(r.w, ~r.ret)
             : r \in {VmBackupStartScripts(w1, type, NULL, scriptOk, FALSE)}}
    ELSE {TickExit(w, /\ ~w.st.syncProviderRunning
                      /\ (w.st.callback = NULL \/ w.st.clientAborted))}

\* After the loop: conclude the sync provider, or decide whether to finalize.
\* The worlds the tick may end in.
Conclude(w, scriptOk) ==
  IF /\ w.st.syncProviderRunning
     /\ (w.st.snapshotDone \/ w.st.syncProviderFailed \/ w.st.clientAborted)
     /\ w.st.callback = NULL
    THEN LET w1 == [w EXCEPT !.st.syncProviderRunning = FALSE,
                             !.st.pollPeriod = ConcludedPollPeriod]
             type == IF w1.st.syncProviderFailed \/ w1.st.clientAborted
                       THEN VMBACKUP_SCRIPT_FREEZE_FAIL
                       ELSE VMBACKUP_SCRIPT_THAW
         IN {TickExit(r.w, ~r.ret)
             : r \in {VmBackupStartScripts(w1, type, NULL, scriptOk, FALSE)}}
    ELSE {TickExit(w, /\ ~w.st.syncProviderRunning
                      /\ (w.st.callback = NULL \/ w.st.clientAborted))}

\* Mutant: the failure of the operation is not reported.
OpFailedNoEvent(w, scriptOk) ==
  LET w2 == ReleaseCurrentOp(w)
  IN IF ~w2.st.syncProviderRunning /\ w2.st.scripts
       THEN {TickExit(r.w, ~r.ret)
             : r \in {VmBackupStartScripts([w2 EXCEPT !.st.callback = NULL],
                                           VMBACKUP_SCRIPT_FREEZE_FAIL,
                                           NULL, scriptOk, FALSE)}}
       ELSE {TickExit(w2, FALSE)}

\* The default case of the status switch: the operation failed.  The worlds
\* the tick may end in.
OpFailed(w, scriptOk) ==
  LET w1 == VmBackupSendEvent(w, VMBACKUP_EVENT_REQUESTOR_ERROR,
                              VMBACKUP_UNEXPECTED_ERROR)
      w2 == ReleaseCurrentOp(w1)
  IN IF ~w2.st.syncProviderRunning /\ w2.st.scripts
       THEN {TickExit(r.w, ~r.ret)
             : r \in {VmBackupStartScripts([w2 EXCEPT !.st.callback = NULL],
                                           VMBACKUP_SCRIPT_FREEZE_FAIL,
                                           NULL, scriptOk, FALSE)}}
       ELSE {TickExit(w2, FALSE)}

\* The loop and what follows it.
DrainAndConclude(w, scriptOk) ==
  UNION {IF d.exit THEN {TickExit(d.w, d.fin)} ELSE Conclude(d.w, scriptOk)
         : d \in Drain(w, FALSE)}

\* Mutant: the tick drains the callbacks although the current operation is
\* still pending.
AsyncCallbackBodyIgnoresPending(w, scriptOk) ==
  DrainAndConclude([w EXCEPT !.st.timerEvent = FALSE], scriptOk)

\* The body of VmBackupAsyncCallback once the fired timer left the queue:
\* every world the tick may end in.
AsyncCallbackBody(w, scriptOk) ==
  LET w0 == [w EXCEPT !.st.timerEvent = FALSE] IN
  IF w0.st.currentOp # NULL
    THEN CASE w0.status = VMBACKUP_STATUS_PENDING -> {TickExit(w0, FALSE)}
           [] w0.status = VMBACKUP_STATUS_FINISHED ->
                DrainAndConclude(ReleaseCurrentOp(w0), scriptOk)
           [] OTHER -> OpFailed(w0, scriptOk)
    ELSE DrainAndConclude(w0, scriptOk)


(* ------------------------- VmBackupReadConfig -------------------------- *)

\* The characters a line of vmbackup.conf is made of here: the two blanks
\* the scan skips, the comment mark, and any other character.
CfgChars == {" ", "\t", "#", "x"}

\* The lines StdIO_ReadNextLine may return.
CfgLines == UNION {[1..n -> CfgChars] : n \in 0..MaxLineLen}

\* Mutant: only the first character of the line is looked at.
SkipLineFirstCharOnly(line) ==
  Len(line) = 0 \/ line[1] = "#"

\* The for loop over the characters of a line, from position c on: the
\* value of skip when the loop ends.
RECURSIVE ScanLine(_, _)
ScanLine(line, c) ==
  IF c > Len(line)
    THEN TRUE
    ELSE IF line[c] # " " /\ line[c] # "\t"
           THEN line[c] = "#"
           ELSE ScanLine(line, c + 1)

\* skip, for the line just read.
SkipLine(line) == ScanLine(line, 1)

\* The exit label: a failed run destroys the list and leaves it empty.
ConfigExit(ret, targets) ==
  /\ cfgPhase' = "done"
  /\ cfgRet' = ret
  /\ disabledTargets' = IF ret THEN targets ELSE <<>>

\* VmBackupReadConfig up to the loop.  env is what the run meets: no
\* configuration directory, no memory for the path, no regular file at the
\* path, a file that cannot be opened, or an open file.
ReadConfigOpen(env) ==
  /\ cfgPhase = "start"
  /\ cfgFault' = IF env = "opened" THEN "none" ELSE env
  /\ CASE env \in {"noConfPath", "noMemory"} ->
            /\ cfgPhase' = "done"
            /\ cfgRet' = FALSE
            /\ UNCHANGED disabledTargets
       [] env = "absent" -> ConfigExit(TRUE, disabledTargets)
       [] env = "openFailed" -> ConfigExit(FALSE, disabledTargets)
       [] env = "opened" ->
            /\ cfgPhase' = "reading"
            /\ UNCHANGED <<cfgRet, disabledTargets>>
  /\ UNCHANGED <<cfgRead, smVars>>

\* One pass of the while loop in which StdIO_ReadNextLine returned `line`;
\* pushOk: TargetArray_Push finds memory.
ReadConfigLine(line, pushOk) ==
  /\ cfgPhase = "reading"
  /\ Len(cfgRead) < MaxCfgLines
  /\ cfgRead' = Append(cfgRead, line)
  /\ IF ~SkipLine(line) /\ ~pushOk
       THEN /\ cfgFault' = "pushFailed"
            /\ ConfigExit(FALSE, disabledTargets)
       ELSE /\ disabledTargets' = IF SkipLine(line)
                                    THEN disabledTargets
                                    ELSE Append(disabledTargets, line)
            /\ UNCHANGED <<cfgPhase, cfgRet, cfgFault>>
  /\ UNCHANGED smVars

\* The pass of the while loop in which StdIO_ReadNextLine returned no line:
\* status is StdIO_EOF or StdIO_Error.
ReadConfigEnd(status) ==
  /\ cfgPhase = "reading"
  /\ cfgFault' = IF status = "StdIO_EOF" THEN "none" ELSE "readError"
  /\ ConfigExit(status = "StdIO_EOF", disabledTargets)
  /\ UNCHANGED <<cfgRead, smVars>>

\* A run of VmBackupReadConfig on a session that was just allocated.
ConfigInit ==
  /\ SmInit
  /\ cfgPhase = "start"
  /\ cfgRead = <<>>
  /\ disabledTargets = <<>>
  /\ cfgRet = NULL
  /\ cfgFault = "none"

ConfigNext ==
  \/ \E env \in {"noConfPath", "noMemory", "absent", "openFailed", "opened"} :
       ReadConfigOpen(env)
  \/ \E line \in CfgLines, pushOk \in BOOLEAN : ReadConfigLine(line, pushOk)
  \/ \E status \in {"StdIO_EOF", "StdIO_Error"} : ReadConfigEnd(status)

ConfigSpec == ConfigInit /\ [][ConfigNext]_vars


(* ------------------------------ actions -------------------------------- *)

\* Mutant: every command is answered with success.
ReplyAlwaysOk(name, ok, msg) ==
  /\ rpc' = [name |-> name, ok |-> TRUE, msg |-> ""]
  /\ nCmds' = nCmds + 1

\* RpcIn_SetRetVals(result, resultLen, msg, ok) of the command `name`.
Reply(name, ok, msg) ==
  /\ rpc' = [name |-> name, ok |-> ok, msg |-> msg]
  /\ nCmds' = nCmds + 1

\* Mutant: Start does not look at the active-session slot.
StartIgnoresSession == FALSE

\* The test at the head of VmBackupStart.
StartAlreadyRunning == gBackupState # NoSession

\* Mutant: a failed Start leaves the session object in the slot.
FreeSessionKeepsSlot(w) == w

\* free(gBackupState); gBackupState = NULL;  (the failure paths of Start)
FreeSession(w) ==
  [w EXCEPT !.st = NoSession]

\* VmBackupStart, the "vmbackup.start" handler.  cfgOk: VmBackupReadConfig
\* succeeds; scriptOk: the freeze scripts can be started; haveScripts: a
\* script set exists.
VmBackupStart(cfgOk, scriptOk, haveScripts) ==
  /\ ~assertFailed
  /\ ~shutDown
  /\ UNCHANGED <<shutDown, cfgVars>>
  /\ nCmds < MaxCmds
  /\ UNCHANGED <<nKeepAlives, assertFailed>>
  /\ IF StartAlreadyRunning
       THEN /\ Reply("start", FALSE, MsgAlreadyInProgress)
            /\ RanIdle("start")
            /\ UNCHANGED <<gBackupState, gEventQueue, events, truncated,
                           opStatus, liveOps, doubleStart, provSteps, nAlloc,
                           nFinalize, nDone, nStartOk, abortAccepted,
                           provStarts>>
       ELSE LET w0 == [World EXCEPT !.st = NewState, !.log = <<>>,
                                    !.trunc = FALSE, !.steps = 0,
                                    !.starts = 0]
                w1 == VmBackupSendEvent(w0, VMBACKUP_EVENT_RESET,
                                        VMBACKUP_SUCCESS)
                r  == VmBackupStartScripts(w1, VMBACKUP_SCRIPT_FREEZE,
                                           "VmBackupEnableSync", scriptOk,
                                           haveScripts)
            IN /\ nAlloc' = nAlloc + 1
               /\ abortAccepted' = FALSE
               /\ IF ~cfgOk
                    THEN /\ Commit(FreeSession(w0))
                         /\ Ran("start", w0)
                         /\ Reply("start", FALSE, MsgConfigError)
                         /\ UNCHANGED nStartOk
                    ELSE IF ~r.ret
                      THEN /\ Commit(FreeSession(r.w))
                           /\ Ran("start", r.w)
                           /\ Reply("start", FALSE, MsgInitError)
                           /\ UNCHANGED nStartOk
                      ELSE /\ Commit(EnqueueEvent(r.w))
                           /\ Ran("start", r.w)
                           /\ Reply("start", TRUE, "")
                           /\ nStartOk' = nStartOk + 1

\* Mutant: Abort sets the flag but sends no event.
AbortBodyNoEvent(w) ==
  LET w1 == IF w.st.currentOp # NULL THEN ReleaseCurrentOp(w) ELSE w
  IN [w1 EXCEPT !.st.clientAborted = TRUE]

\* Mutant: Abort leaves the in-flight operation to a later tick.
AbortBodyKeepsOp(w) ==
  VmBackupSendEvent([w EXCEPT !.st.clientAborted = TRUE],
                    VMBACKUP_EVENT_REQUESTOR_ABORT, VMBACKUP_REMOTE_ABORT)

\* Mutant: Abort calls the provider's abort whether or not it is running.
AbortBodyAlwaysAbortsProvider(w) ==
  LET w1 == IF w.st.currentOp # NULL
              THEN ReleaseCurrentOp(Call(w, "op.cancel"))
              ELSE w
      w2 == Call(w1, "provider.abort")
      w3 == [w2 EXCEPT !.st.clientAborted = TRUE]
  IN VmBackupSendEvent(w3, VMBACKUP_EVENT_REQUESTOR_ABORT,
                       VMBACKUP_REMOTE_ABORT)

\* Mutant: Abort also forgets the callback that was waiting.
AbortBodyClearsCallback(w) ==
  LET w1 == IF w.st.currentOp # NULL
              THEN ReleaseCurrentOp(Call(w, "op.cancel"))
              ELSE w
      w2 == IF w1.st.syncProviderRunning
              THEN Call(w1, "provider.abort")
              ELSE w1
      w3 == [w2 EXCEPT !.st.clientAborted = TRUE, !.st.callback = NULL]
  IN VmBackupSendEvent(w3, VMBACKUP_EVENT_REQUESTOR_ABORT,
                       VMBACKUP_REMOTE_ABORT)

\* The body of VmBackupAbort when a session exists.
AbortBody(w) ==
  LET w1 == IF w.st.currentOp # NULL
              THEN ReleaseCurrentOp(Call(w, "op.cancel"))
              ELSE w
      w2 == IF w1.st.syncProviderRunning
              THEN Call(w1, "provider.abort")
              ELSE w1
      w3 == [w2 EXCEPT !.st.clientAborted = TRUE]
  IN VmBackupSendEvent(w3, VMBACKUP_EVENT_REQUESTOR_ABORT,
                       VMBACKUP_REMOTE_ABORT)

\* VmBackupAbort, the "vmbackup.abort" handler.
VmBackupAbort ==
  /\ ~assertFailed
  /\ ~shutDown
  /\ UNCHANGED <<shutDown, cfgVars>>
  /\ nCmds < MaxCmds
  /\ UNCHANGED <<nKeepAlives, assertFailed, nAlloc, nStartOk>>
  /\ IF gBackupState # NoSession
       THEN /\ Commit(AbortBody(World))
            /\ Ran("abort", AbortBody(World))
            /\ abortAccepted' = TRUE
            /\ Reply("abort", TRUE, "")
       ELSE /\ Reply("abort", FALSE, MsgNoBackup)
            /\ RanIdle("abort")
            /\ UNCHANGED <<gBackupState, gEventQueue, events, truncated,
                           opStatus, liveOps, doubleStart, provSteps,
                           nFinalize, nDone, abortAccepted, provStarts>>

\* Mutant: the snapshot is marked done even when the provider failed.
SnapshotDoneBodyMarksReadyOnFailure(w, providerOk) ==
  LET w1 == Call(w, "provider.snapshotDone") IN
  IF ~providerOk
    THEN VmBackupSendEvent([w1 EXCEPT !.st.syncProviderFailed = TRUE,
                                      !.st.snapshotDone = TRUE],
                           VMBACKUP_EVENT_REQUESTOR_ERROR, VMBACKUP_SYNC_ERROR)
    ELSE [w1 EXCEPT !.st.snapshotDone = TRUE]

\* Mutant: a successful notification clears an earlier provider failure.
SnapshotDoneBodyClearsFailure(w, providerOk) ==
  LET w1 == Call(w, "provider.snapshotDone") IN
  IF ~providerOk
    THEN VmBackupSendEvent([w1 EXCEPT !.st.syncProviderFailed = TRUE],
                           VMBACKUP_EVENT_REQUESTOR_ERROR, VMBACKUP_SYNC_ERROR)
    ELSE [w1 EXCEPT !.st.snapshotDone = TRUE, !.st.syncProviderFailed = FALSE]

\* The body of VmBackupSnapshotDone when a session exists; providerOk is the
\* result of gSyncProvider->snapshotDone.
SnapshotDoneBody(w, providerOk) ==
  LET w1 == Call(w, "provider.snapshotDone") IN
  IF ~providerOk
    THEN VmBackupSendEvent([w1 EXCEPT !.st.syncProviderFailed = TRUE],
                           VMBACKUP_EVENT_REQUESTOR_ERROR, VMBACKUP_SYNC_ERROR)
    ELSE [w1 EXCEPT !.st.snapshotDone = TRUE]

\* VmBackupSnapshotDone, the "vmbackup.snapshotDone" handler.
VmBackupSnapshotDone(providerOk) ==
  /\ ~assertFailed
  /\ ~shutDown
  /\ UNCHANGED <<shutDown, cfgVars>>
  /\ nCmds < MaxCmds
  /\ UNCHANGED <<nKeepAlives, assertFailed, nAlloc, nStartOk, abortAccepted>>
  /\ IF gBackupState # NoSession
       THEN /\ Commit(SnapshotDoneBody(World, providerOk))
            /\ Ran("snapshotDone", SnapshotDoneBody(World, providerOk))
            /\ Reply("snapshotDone", TRUE, "")
       ELSE /\ Reply("snapshotDone", FALSE, MsgNoBackup)
            /\ RanIdle("snapshotDone")
            /\ UNCHANGED <<gBackupState, gEventQueue, events, truncated,
                           opStatus, liveOps, doubleStart, provSteps,
                           nFinalize, nDone, provStarts>>

\* The event manager fires the poll timer: VmBackupAsyncCallback.
VmBackupAsyncCallback(scriptOk) ==
  /\ ~assertFailed
  /\ ~shutDown
  /\ UNCHANGED <<shutDown, cfgVars>>
  /\ gEventQueue.poll > 0
  /\ UNCHANGED <<nKeepAlives, nAlloc, nStartOk, abortAccepted, rpc, nCmds>>
  /\ IF gBackupState = NoSession
       THEN /\ assertFailed' = TRUE
            /\ gEventQueue' = [gEventQueue EXCEPT !.poll = @ - 1]
            /\ RanIdle("tick")
            /\ UNCHANGED <<gBackupState, events, truncated, opStatus,
                           liveOps, doubleStart, provSteps, nFinalize, nDone,
                           provStarts>>
       ELSE /\ UNCHANGED assertFailed
            /\ \E w \in AsyncCallbackBody(
                          [World EXCEPT !.evq.poll = @ - 1], scriptOk) :
                 Commit(w) /\ Ran("tick", w)

\* The body of VmBackupKeepAliveCallback when a session exists.
KeepAliveBody(w) ==
  VmBackupSendEvent([w EXCEPT !.st.keepAlive = FALSE],
                    VMBACKUP_EVENT_KEEP_ALIVE, VMBACKUP_SUCCESS)

\* The event manager fires a keep-alive timer: VmBackupKeepAliveCallback.
VmBackupKeepAliveCallback ==
  /\ ~assertFailed
  /\ ~shutDown
  /\ UNCHANGED <<shutDown, cfgVars>>
  /\ gEventQueue.keepAlive > 0
  /\ nKeepAlives < MaxKeepAlives
  /\ nKeepAlives' = nKeepAlives + 1
  /\ UNCHANGED <<nAlloc, nStartOk, abortAccepted, rpc, nCmds>>
  /\ IF gBackupState = NoSession
       THEN /\ assertFailed' = TRUE
            /\ gEventQueue' = [gEventQueue EXCEPT !.keepAlive = @ - 1]
            /\ RanIdle("keepAlive")
            /\ UNCHANGED <<gBackupState, events, truncated, opStatus,
                           liveOps, doubleStart, provSteps, nFinalize, nDone,
                           provStarts>>
       ELSE /\ UNCHANGED assertFailed
            /\ Commit(KeepAliveBody([World EXCEPT !.evq.keepAlive = @ - 1]))
            /\ Ran("keepAlive",
                   KeepAliveBody([World EXCEPT !.evq.keepAlive = @ - 1]))

\* The current suboperation reaches a terminal status (VmBackup_QueryStatus
\* will report it from now on).
OpCompletes(status) ==
  /\ ~assertFailed
  /\ ~shutDown
  /\ UNCHANGED <<shutDown, cfgVars>>
  /\ gBackupState # NoSession
  /\ gBackupState.currentOp # NULL
  /\ opStatus = VMBACKUP_STATUS_PENDING
  /\ opStatus' = status
  /\ RanIdle("operation")
  /\ UNCHANGED <<gBackupState, gEventQueue, events, truncated, liveOps,
                 doubleStart, provSteps, nAlloc, nFinalize, nDone, nStartOk,
                 abortAccepted, rpc, nCmds, nKeepAlives, assertFailed,
                 provStarts>>

\* What gSyncProvider->release found: whether a session was still in the
\* active-session slot when the provider was released.
ProviderReleased(w) ==
  IF w.st = NoSession
    THEN "provider.release"
    ELSE "provider.release(session)"

\* Mutant: Shutdown releases the provider without finalizing the session.
ShutdownBodySkipsFinalize(w) ==
  Call(w, ProviderReleased(w))

\* The body of VmBackup_Shutdown up to the release of the provider.
ShutdownBody(w) ==
  LET w1 == IF w.st # NoSession THEN VmBackupFinalize(w) ELSE w
  IN Call(w1, ProviderReleased(w1))

\* VmBackup_Shutdown: the three handlers are unregistered and the pointers
\* to the provider and to the event queue are dropped, so nothing of the
\* state machine runs afterwards.
VmBackup_Shutdown ==
  /\ ~assertFailed
  /\ ~shutDown
  /\ shutDown' = TRUE
  /\ Commit(ShutdownBody(World))
  /\ Ran("shutdown", ShutdownBody(World))
  /\ UNCHANGED <<nKeepAlives, assertFailed, nAlloc, nStartOk, abortAccepted,
                 rpc, nCmds, cfgVars>>

Tick == \E scriptOk \in BOOLEAN : VmBackupAsyncCallback(scriptOk)

Start ==
  \E cfgOk \in BOOLEAN, scriptOk \in BOOLEAN, haveScripts \in BOOLEAN :
    VmBackupStart(cfgOk, scriptOk, haveScripts)

SnapshotDone == \E providerOk \in BOOLEAN : VmBackupSnapshotDone(providerOk)

OpTerminates ==
  \E status \in {VMBACKUP_STATUS_FINISHED, VMBACKUP_STATUS_ERROR} :
    OpCompletes(status)

Next ==
  \/ Start
  \/ VmBackupAbort
  \/ SnapshotDone
  \/ Tick
  \/ VmBackupKeepAliveCallback
  \/ OpTerminates
  \/ VmBackup_Shutdown

Spec == Init /\ [][Next]_vars


\* The poll tick is rescheduled by the tick itself, and the event manager
\* fires every scheduled timer; every suboperation reaches a terminal status.
LiveSpec == Init /\ [][Next]_vars /\ WF_vars(Tick) /\ WF_vars(OpTerminates)

(* ------------------------------ properties ----------------------------- *)

SessionExists == gBackupState # NoSession

\* This step is the RpcIn command `name`.
CmdStep(name) == nCmds' = nCmds + 1 /\ rpc'.name = name

\* The terminal events of the protocol.
TerminalEvents ==
  {VMBACKUP_EVENT_REQUESTOR_DONE, VMBACKUP_EVENT_REQUESTOR_ERROR,
   VMBACKUP_EVENT_REQUESTOR_ABORT}

CountEvents(names) == Cardinality({i \in DOMAIN events : events[i].name \in names})

LastEvent == events[Len(events)]

DoneEvent == [name |-> VMBACKUP_EVENT_REQUESTOR_DONE, code |-> VMBACKUP_SUCCESS]

\* C1: a Start command delivered while a session exists is answered with
\* failure ("already in progress") and changes nothing: not the session, not
\* the timers, not the current suboperation, not the events sent.
C1_StartRejectedLeavesSession ==
  [][(CmdStep("start") /\ SessionExists) =>
       /\ rpc'.ok = FALSE
       /\ rpc'.msg = MsgAlreadyInProgress
       /\ UNCHANGED <<gBackupState, gEventQueue, events, truncated, opStatus,
                      liveOps, doubleStart, provSteps, nAlloc, nFinalize,
                      nDone, nStartOk, abortAccepted, provStarts>>]_vars

C1_Witness ==
  /\ SessionExists
  /\ rpc = [name |-> "start", ok |-> FALSE, msg |-> MsgAlreadyInProgress]
  /\ gBackupState.currentOp # NULL

\* C2: every session object that got past the configuration load is torn
\* down by exactly one call of Finalize: a step that discards such a session
\* is a step in which Finalize ran once.
C2_DiscardOnlyByFinalize ==
  [][(/\ gBackupState' = NoSession
      /\ (SessionExists \/ (nAlloc' = nAlloc + 1 /\ events' # <<>>)))
       => nFinalize' = nFinalize + 1]_vars

\* C3 (as stated): when a session has ended, exactly one event of
\* {req.done, req.error, req.aborted} was sent in its lifetime.
C3_ExactlyOneTerminalEvent ==
  (~SessionExists /\ events # <<>> /\ ~truncated)
    => CountEvents(TerminalEvents) = 1

\* C3 (amended): "req.done" is sent by Finalize and by nothing else; the
\* step in which Finalize runs ends the session, and "req.done" (code 0) is
\* then the session's last event and occurs once in it.
C3_OneDoneSentByFinalize ==
  [][/\ (nDone' # nDone) => (nFinalize' = nFinalize + 1)
     /\ (nFinalize' = nFinalize + 1) =>
          /\ SessionExists
          /\ gBackupState' = NoSession
          /\ nDone' = nDone + 1
          /\ events'[Len(events')] = DoneEvent
          /\ truncated' \/
               Cardinality({i \in DOMAIN events' :
                              events'[i].name = VMBACKUP_EVENT_REQUESTOR_DONE}) = 1
    ]_vars

\* A finalized session with more than one terminal event.
C3_Witness ==
  /\ ~SessionExists
  /\ ~truncated
  /\ nFinalize = 1
  /\ events # <<>>
  /\ LastEvent = DoneEvent
  /\ CountEvents(TerminalEvents) > 1

\* C4 (as stated): no "req.done" follows a "req.aborted" in a session.
C4_NoDoneAfterAbort ==
  \A i, j \in DOMAIN events :
    (i < j /\ events[i].name = VMBACKUP_EVENT_REQUESTOR_ABORT)
      => events[j].name # VMBACKUP_EVENT_REQUESTOR_DONE

\* C4 (amended): a session in which Abort was accepted has sent "req.aborted"
\* (code: remote abort), and once it has ended its last event is the
\* "req.done" (code 0) of Finalize, sent after the "req.aborted".
C4_AbortedSessionEndsAbortThenDone ==
  (abortAccepted /\ ~truncated) =>
    /\ \E i \in DOMAIN events :
         events[i] = [name |-> VMBACKUP_EVENT_REQUESTOR_ABORT,
                      code |-> VMBACKUP_REMOTE_ABORT]
    /\ ~SessionExists =>
         /\ LastEvent = DoneEvent
         /\ \E i \in 1..(Len(events) - 1) :
              events[i].name = VMBACKUP_EVENT_REQUESTOR_ABORT

C4_Witness ==
  /\ abortAccepted
  /\ ~SessionExists
  /\ ~truncated
  /\ nFinalize = 1

\* C5: every Start that succeeded before the current one has had exactly one
\* "req.done": a Start succeeds only when the sessions started before it
\* have each been finalized, and each finalization sent one "req.done".
C5_OneDonePerStartedSession ==
  nDone = nStartOk - (IF SessionExists THEN 1 ELSE 0)

\* A second Start succeeded.
C5_Witness ==
  /\ nStartOk = 2
  /\ SessionExists
  /\ rpc = [name |-> "start", ok |-> TRUE, msg |-> ""]

\* C6: a session in which Abort was accepted is eventually finalized.
C6_AbortedSessionIsFinalized ==
  (abortAccepted /\ SessionExists) ~> ~SessionExists

\* C7: when Finalize completes, no keep-alive timer is scheduled.
C7_NoKeepAliveAfterFinalize ==
  [][(nFinalize' = nFinalize + 1) => gEventQueue'.keepAlive = 0]_vars

\* C8: a suboperation is never installed over a non-null currentOperation,
\* and the only operation object not yet released is the current one.
C8_NeverDoubleStarted ==
  /\ ~doubleStart
  /\ liveOps = IF SessionExists /\ gBackupState.currentOp # NULL THEN 1 ELSE 0

\* A second suboperation of the session is current: the first was released.
C8_Witness ==
  /\ SessionExists
  /\ gBackupState.currentOp \in {"providerOp", VMBACKUP_SCRIPT_FREEZE_FAIL,
                                 VMBACKUP_SCRIPT_THAW}
  /\ liveOps = 1

\* C9: whenever a session object has been discarded, neither timer is
\* scheduled, no operation object is left unreleased, and the last event it
\* sent (if it sent any) is a terminal event.
C9_DiscardCancelsTimers ==
  (~SessionExists /\ ~assertFailed) =>
    /\ gEventQueue = [poll |-> 0, keepAlive |-> 0]
    /\ liveOps = 0
    /\ events # <<>> => LastEvent.name \in TerminalEvents

\* C10 (as stated): the Abort handler does not release a suboperation that
\* is in flight; it stays currentOperation when Abort returns.
C10_AbortKeepsCurrentOp ==
  [][(CmdStep("abort") /\ SessionExists /\ gBackupState.currentOp # NULL)
       => (/\ gBackupState'.currentOp = gBackupState.currentOp
           /\ liveOps' = liveOps)]_vars

\* C10 (amended): the Abort handler itself releases the suboperation in
\* flight and clears currentOperation; what is deferred to a tick is the
\* teardown of the session: it still exists, with its poll tick scheduled
\* and its pending callback untouched, when Abort returns.
C10_AbortReleasesOpDefersFinalize ==
  [][(CmdStep("abort") /\ SessionExists) =>
       /\ gBackupState' # NoSession
       /\ gBackupState'.currentOp = NULL
       /\ liveOps' = 0
       /\ opStatus' = NULL
       /\ gBackupState'.clientAborted
       /\ gBackupState'.callback = gBackupState.callback
       /\ gEventQueue'.poll = gEventQueue.poll
       /\ nFinalize' = nFinalize]_vars

\* Abort arrived while the freeze scripts were in flight: their continuation
\* is still pending and no operation is current.
C10_Witness ==
  /\ SessionExists
  /\ rpc = [name |-> "abort", ok |-> TRUE, msg |-> ""]
  /\ gBackupState.callback = "VmBackupEnableSync"
  /\ gBackupState.currentOp = NULL
  /\ gBackupState.clientAborted

AbortEvent ==
  [name |-> VMBACKUP_EVENT_REQUESTOR_ABORT, code |-> VMBACKUP_REMOTE_ABORT]

SyncErrorEvent ==
  [name |-> VMBACKUP_EVENT_REQUESTOR_ERROR, code |-> VMBACKUP_SYNC_ERROR]

\* The handler that just ran sent a "req.error" with a mid-session code.
SentMidSessionError(l) ==
  \E i \in DOMAIN l.sent :
    /\ l.sent[i].name = VMBACKUP_EVENT_REQUESTOR_ERROR
    /\ l.sent[i].code \in {VMBACKUP_SCRIPT_ERROR, VMBACKUP_SYNC_ERROR,
                           VMBACKUP_UNEXPECTED_ERROR}

\* C11: with a session, Abort returns success, cancels the operation in
\* flight if and only if there is one, calls the provider's abort if and only
\* if syncProviderRunning, sets clientAborted, sends exactly one event, the
\* "req.aborted", and does not finalize.
C11_AbortWithSession ==
  [][(CmdStep("abort") /\ SessionExists) =>
       /\ rpc'.ok
       /\ ("op.cancel" \in last'.calls) <=> (gBackupState.currentOp # NULL)
       /\ ("provider.abort" \in last'.calls)
            <=> gBackupState.syncProviderRunning
       /\ last'.calls \subseteq {"op.cancel", "provider.abort"}
       /\ gBackupState' # NoSession
       /\ gBackupState'.clientAborted
       /\ gBackupState'.syncProviderRunning = gBackupState.syncProviderRunning
       /\ last'.sent = <<AbortEvent>>
       /\ nFinalize' = nFinalize
       /\ nDone' = nDone]_vars

\* Abort was accepted while the provider was running and an operation of
\* the provider was in flight.
C11_Witness ==
  /\ SessionExists
  /\ last = [handler |-> "abort", sent |-> <<AbortEvent>>,
             calls |-> {"op.cancel", "provider.abort"}]
  /\ rpc = [name |-> "abort", ok |-> TRUE, msg |-> ""]
  /\ gBackupState.clientAborted

\* C12: with a session, SnapshotDone always returns success and calls the
\* provider's snapshotDone.  When the provider fails it sets
\* syncProviderFailed, sends exactly one "req.error" with the sync-error
\* code and leaves snapshotDone alone; when the provider succeeds it sets
\* snapshotDone, sends nothing and leaves syncProviderFailed alone.
C12_SnapshotDoneWithSession ==
  [][\A providerOk \in BOOLEAN :
       (/\ CmdStep("snapshotDone")
        /\ SessionExists
        /\ VmBackupSnapshotDone(providerOk)) =>
         /\ rpc' = [name |-> "snapshotDone", ok |-> TRUE, msg |-> ""]
         /\ last'.calls = {"provider.snapshotDone"}
         /\ gBackupState' # NoSession
         /\ nFinalize' = nFinalize
         /\ IF providerOk
              THEN /\ gBackupState'.snapshotDone
                   /\ last'.sent = <<>>
                   /\ events' = events
                   /\ gBackupState'.syncProviderFailed
                        = gBackupState.syncProviderFailed
              ELSE /\ gBackupState'.syncProviderFailed
                   /\ last'.sent = <<SyncErrorEvent>>
                   /\ gBackupState'.snapshotDone = gBackupState.snapshotDone
    ]_vars

\* The provider failed a SnapshotDone of a session whose snapshot was not
\* marked done.
C12_Witness ==
  /\ SessionExists
  /\ last = [handler |-> "snapshotDone", sent |-> <<SyncErrorEvent>>,
             calls |-> {"provider.snapshotDone"}]
  /\ rpc = [name |-> "snapshotDone", ok |-> TRUE, msg |-> ""]
  /\ gBackupState.syncProviderFailed
  /\ ~gBackupState.snapshotDone

\* C13: without a session, Abort and SnapshotDone return failure ("no backup
\* in progress"), send no event, call no provider capability, schedule no
\* timer and create no session.
C13_NoSessionCommandsFail ==
  [][((CmdStep("abort") \/ CmdStep("snapshotDone")) /\ ~SessionExists) =>
       /\ rpc'.ok = FALSE
       /\ rpc'.msg = MsgNoBackup
       /\ last'.sent = <<>>
       /\ last'.calls = {}
       /\ events' = events
       /\ gEventQueue' = gEventQueue
       /\ gBackupState' = NoSession
       /\ nAlloc' = nAlloc]_vars

\* Abort was refused after a session had come and gone.
C13_Witness ==
  /\ ~SessionExists
  /\ nFinalize = 1
  /\ rpc = [name |-> "abort", ok |-> FALSE, msg |-> MsgNoBackup]
  /\ last = [handler |-> "abort", sent |-> <<>>, calls |-> {}]

\* C14: a Start whose configuration load fails returns failure ("error when
\* reading configuration file"), leaves no session, sends no event (not even
\* "reset"), schedules no timer and starts no suboperation; the slot is
\* empty, so a later Start is not rejected as already running.
C14_ConfigFailureLeavesNothing ==
  [][\A scriptOk, haveScripts \in BOOLEAN :
       (/\ CmdStep("start")
        /\ ~SessionExists
        /\ VmBackupStart(FALSE, scriptOk, haveScripts)) =>
         /\ rpc' = [name |-> "start", ok |-> FALSE, msg |-> MsgConfigError]
         /\ gBackupState' = NoSession
         /\ ~StartAlreadyRunning'
         /\ last'.sent = <<>>
         /\ last'.calls = {}
         /\ gEventQueue' = gEventQueue
         /\ liveOps' = liveOps
         /\ nDone' = nDone
         /\ nFinalize' = nFinalize]_vars

\* A Start succeeded right after a Start that failed on the configuration.
C14_Witness ==
  /\ nAlloc = 2
  /\ nStartOk = 1
  /\ nCmds = 2
  /\ nFinalize = 0
  /\ SessionExists
  /\ rpc = [name |-> "start", ok |-> TRUE, msg |-> ""]

\* C15 (as stated): whenever a command handler (Start, Abort, SnapshotDone)
\* sends a "req.error" with the script, sync-provider or unexpected-error
\* code, that command still returns success.
C15_ErrorEventCommandSucceeds ==
  [][(nCmds' = nCmds + 1 /\ SentMidSessionError(last')) => rpc'.ok]_vars

\* C15 (amended): Abort and SnapshotDone return success whenever they send a
\* "req.error"; Start is the exception: when the freeze scripts cannot be
\* started it sends "req.error" with the script-error code and returns
\* failure ("error initializing backup"), leaving no session.
C15_ErrorEventReplyByCommand ==
  [][(nCmds' = nCmds + 1 /\ SentMidSessionError(last')) =>
       IF rpc'.name = "start"
         THEN /\ rpc' = [name |-> "start", ok |-> FALSE, msg |-> MsgInitError]
              /\ last'.sent = <<[name |-> VMBACKUP_EVENT_RESET,
                                 code |-> VMBACKUP_SUCCESS],
                                [name |-> VMBACKUP_EVENT_REQUESTOR_ERROR,
                                 code |-> VMBACKUP_SCRIPT_ERROR]>>
              /\ gBackupState' = NoSession
         ELSE /\ rpc'.ok
              /\ rpc'.name = "snapshotDone"
              /\ gBackupState' # NoSession]_vars

\* A Start sent "req.error" (script error) and returned failure.
C15_Witness ==
  /\ rpc = [name |-> "start", ok |-> FALSE, msg |-> MsgInitError]
  /\ last.handler = "start"
  /\ SentMidSessionError(last)
  /\ ~SessionExists

\* The session's flag `f`, FALSE when there is no session.
Flag(st, f) == st # NoSession /\ st[f]

\* This step is a poll tick (VmBackupAsyncCallback ran).
TickStep == last'.handler = "tick"

\* This step stays within one session.
SameSession ==
  SessionExists /\ gBackupState' # NoSession /\ nAlloc' = nAlloc

\* The worlds in which the while loop of a poll tick fired now may end:
\* the tick enters the loop when no operation is current or the current one
\* has finished.
TickDrains ==
  IF SessionExists /\ gEventQueue.poll > 0 /\ ~assertFailed
    THEN LET w0 == [World EXCEPT !.evq.poll = @ - 1, !.st.timerEvent = FALSE]
         IN IF w0.st.currentOp = NULL
              THEN Drain(w0, FALSE)
              ELSE IF w0.status = VMBACKUP_STATUS_FINISHED
                     THEN Drain(ReleaseCurrentOp(w0), FALSE)
                     ELSE {}
    ELSE {}

C17_OpAndNameTogether ==
  SessionExists =>
    ((gBackupState.currentOp = NULL) <=> (gBackupState.currentOpName = NULL))

\* The name each operation is expected to carry.
NameOfOp(op) ==
  CASE op = VMBACKUP_SCRIPT_FREEZE -> "VmBackupOnFreeze"
    [] op = VMBACKUP_SCRIPT_FREEZE_FAIL -> "VmBackupOnFreezeFail"
    [] op = VMBACKUP_SCRIPT_THAW -> "VmBackupOnThaw"
    [] op = "providerOp" -> "providerOp"

\* C17 (amended): whenever currentOperation is set, currentOperationName is
\* set and is the name of that operation.  Releasing or cancelling the
\* operation does not clear the name: once set it stays set for the rest of
\* the session, and Abort leaves it as it was.
C17_CurrentOpIsNamed ==
  /\ [](SessionExists /\ gBackupState.currentOp # NULL
          => gBackupState.currentOpName = NameOfOp(gBackupState.currentOp))
  /\ [][SameSession =>
          /\ gBackupState.currentOpName # NULL
               => gBackupState'.currentOpName # NULL
          /\ CmdStep("abort")
               => gBackupState'.currentOpName = gBackupState.currentOpName
       ]_vars

\* Abort cancelled and released the freeze scripts: no operation is current
\* and their name is still there.
C17_Witness ==
  /\ SessionExists
  /\ gBackupState.currentOp = NULL
  /\ gBackupState.currentOpName = "VmBackupOnFreeze"
  /\ rpc = [name |-> "abort", ok |-> TRUE, msg |-> ""]

\* C18: syncProviderRunning is true only between a successful start of the
\* provider and its conclusion: it becomes true only in a tick in which the
\* provider's start returned success, that happens at most once per session,
\* and it becomes false only in a tick that finds snapshotDone,
\* syncProviderFailed or clientAborted set with no callback pending
\* (VmBackup_Shutdown discards the session as a whole, flag included).
C18_RunningFromStartToConclusion ==
  /\ [](/\ provStarts <= 1
        /\ Flag(gBackupState, "syncProviderRunning") => provStarts = 1)
  /\ [][/\ (provStarts' # provStarts /\ nAlloc' = nAlloc) =>
             /\ TickStep
             /\ provStarts = 0
             /\ provStarts' = 1
             /\ "provider.start" \in last'.calls
        /\ (/\ ~Flag(gBackupState, "syncProviderRunning")
            /\ Flag(gBackupState', "syncProviderRunning")) =>
             /\ TickStep
             /\ SameSession
             /\ provStarts' = provStarts + 1
        /\ (/\ Flag(gBackupState, "syncProviderRunning")
            /\ ~Flag(gBackupState', "syncProviderRunning")
            /\ last'.handler # "shutdown") =>
             /\ TickStep
             /\ IF gBackupState' # NoSession
                  THEN /\ gBackupState'.callback = NULL
                       /\ \/ gBackupState'.snapshotDone
                          \/ gBackupState'.syncProviderFailed
                          \/ gBackupState'.clientAborted
                       /\ gBackupState'.pollPeriod = ConcludedPollPeriod
                       /\ gBackupState'.currentOp
                            = IF \/ gBackupState'.syncProviderFailed
                                 \/ gBackupState'.clientAborted
                                THEN VMBACKUP_SCRIPT_FREEZE_FAIL
                                ELSE VMBACKUP_SCRIPT_THAW
                  ELSE /\ nFinalize' = nFinalize + 1
                       /\ \E i \in DOMAIN last'.sent :
                            last'.sent[i]
                              = [name |-> VMBACKUP_EVENT_REQUESTOR_ERROR,
                                 code |-> VMBACKUP_SCRIPT_ERROR]
       ]_vars

\* The provider ran and was concluded after SnapshotDone: the thaw scripts
\* are current.
C18_Witness ==
  /\ SessionExists
  /\ ~gBackupState.syncProviderRunning
  /\ provStarts = 1
  /\ last.handler = "tick"
  /\ gBackupState.snapshotDone
  /\ gBackupState.currentOp = VMBACKUP_SCRIPT_THAW

\* C19: at most one poll timer and at most one keep-alive timer are
\* scheduled at any time, failed Starts followed by new Starts included.
C19_AtMostOneTimerEach ==
  gEventQueue.poll <= 1 /\ gEventQueue.keepAlive <= 1

\* C20: when Abort was accepted while the freeze scripts were current (the
\* provider not started), the next tick does not invoke the freeze
\* continuation (it does not start the provider) and enqueues the freeze-fail
\* scripts.
C20_AbortDuringFreezeSkipsEnableSync ==
  [][(/\ TickStep
      /\ SessionExists
      /\ gBackupState.clientAborted
      /\ gBackupState.callback = "VmBackupEnableSync"
      /\ gBackupState.currentOp = NULL
      /\ provStarts = 0) =>
       /\ "provider.start" \notin last'.calls
       /\ gBackupState' # NoSession
       /\ gBackupState'.currentOp = VMBACKUP_SCRIPT_FREEZE_FAIL]_vars

ResetEvent == [name |-> VMBACKUP_EVENT_RESET, code |-> VMBACKUP_SUCCESS]

ScriptErrorEvent ==
  [name |-> VMBACKUP_EVENT_REQUESTOR_ERROR, code |-> VMBACKUP_SCRIPT_ERROR]

UnexpectedErrorEvent ==
  [name |-> VMBACKUP_EVENT_REQUESTOR_ERROR, code |-> VMBACKUP_UNEXPECTED_ERROR]

\* The handler that just ran sent the event e.
Sent(l, e) == \E i \in DOMAIN l.sent : l.sent[i] = e

\* The tick fired now finds no operation pending: none is current, or the
\* current one has finished.
NoOpPending ==
  \/ gBackupState.currentOp = NULL
  \/ opStatus = VMBACKUP_STATUS_FINISHED

\* C21: with the provider running, snapshotDone set and neither
\* syncProviderFailed nor clientAborted set, a tick that finds no operation
\* pending and no callback pending clears syncProviderRunning and starts the
\* thaw scripts (not the freeze-fail scripts) as the current operation; it
\* finalizes in that tick only when starting the scripts fails.
C21_SnapshotDoneTickStartsThaw ==
  [][(/\ TickStep
      /\ SessionExists
      /\ gBackupState.syncProviderRunning
      /\ gBackupState.snapshotDone
      /\ ~gBackupState.syncProviderFailed
      /\ ~gBackupState.clientAborted
      /\ gBackupState.callback = NULL
      /\ NoOpPending) =>
       IF gBackupState' # NoSession
         THEN /\ ~gBackupState'.syncProviderRunning
              /\ gBackupState'.currentOp = VMBACKUP_SCRIPT_THAW
              /\ gBackupState'.currentOpName = "VmBackupOnThaw"
              /\ gBackupState'.callback = NULL
              /\ opStatus' = VMBACKUP_STATUS_PENDING
              /\ liveOps' = 1
              /\ last'.sent = <<>>
              /\ nFinalize' = nFinalize
         ELSE /\ nFinalize' = nFinalize + 1
              /\ last'.sent = <<ScriptErrorEvent, DoneEvent>>]_vars

\* The tick after a SnapshotDone concluded the provider and started the thaw
\* scripts.
C21_Witness ==
  /\ SessionExists
  /\ last = [handler |-> "tick", sent |-> <<>>, calls |-> {}]
  /\ provStarts = 1
  /\ ~gBackupState.syncProviderRunning
  /\ gBackupState.snapshotDone
  /\ ~gBackupState.syncProviderFailed
  /\ ~gBackupState.clientAborted
  /\ gBackupState.currentOpName = "VmBackupOnThaw"
  /\ gBackupState.currentOp = VMBACKUP_SCRIPT_THAW
  /\ opStatus = VMBACKUP_STATUS_PENDING

\* C22: a Start with no session, a readable configuration and freeze scripts
\* that start returns success; a Start that returns success sent exactly one
\* event, the "reset", and leaves a session whose current operation is the
\* freeze scripts with VmBackupEnableSync as the pending callback, exactly
\* one poll tick scheduled, and syncProviderRunning and the three flags
\* false.
C22_SuccessfulStart ==
  [][CmdStep("start") =>
       /\ ~SessionExists =>
            \A haveScripts \in BOOLEAN :
              VmBackupStart(TRUE, TRUE, haveScripts) => rpc'.ok
       /\ rpc'.ok =>
            /\ ~SessionExists
            /\ rpc'.msg = ""
            /\ last'.sent = <<ResetEvent>>
            /\ last'.calls = {}
            /\ events' = <<ResetEvent>>
            /\ gBackupState' # NoSession
            /\ gBackupState'.currentOp = VMBACKUP_SCRIPT_FREEZE
            /\ gBackupState'.currentOpName = "VmBackupOnFreeze"
            /\ gBackupState'.callback = "VmBackupEnableSync"
            /\ opStatus' = VMBACKUP_STATUS_PENDING
            /\ liveOps' = 1
            /\ gEventQueue'.poll = 1
            /\ gBackupState'.timerEvent
            /\ gBackupState'.pollPeriod = InitialPollPeriod
            /\ ~gBackupState'.syncProviderRunning
            /\ ~gBackupState'.syncProviderFailed
            /\ ~gBackupState'.clientAborted
            /\ ~gBackupState'.snapshotDone
            /\ nFinalize' = nFinalize]_vars

\* A Start has just succeeded, after an earlier session was finalized.
C22_Witness ==
  /\ SessionExists
  /\ nFinalize = 1
  /\ rpc = [name |-> "start", ok |-> TRUE, msg |-> ""]
  /\ last = [handler |-> "start", sent |-> <<ResetEvent>>, calls |-> {}]
  /\ gEventQueue.poll = 1
  /\ gBackupState.currentOp = VMBACKUP_SCRIPT_FREEZE

\* The tick fired now finds the current operation failed.
OpFailedNow ==
  /\ SessionExists
  /\ gBackupState.currentOp # NULL
  /\ opStatus = VMBACKUP_STATUS_ERROR

\* C23: a tick that finds the freeze scripts finished releases them and
\* invokes VmBackupEnableSync in the same tick; when the provider's start
\* succeeds, the tick ends with syncProviderRunning true, pollPeriod
\* unchanged (100) and the session not finalized.
C23_FreezeDoneEnablesProvider ==
  [][(/\ TickStep
      /\ SessionExists
      /\ gBackupState.currentOp = VMBACKUP_SCRIPT_FREEZE
      /\ opStatus = VMBACKUP_STATUS_FINISHED) =>
       /\ "provider.start" \in last'.calls
       /\ provStarts' = provStarts + 1 =>
            /\ gBackupState' # NoSession
            /\ nFinalize' = nFinalize
            /\ gBackupState'.syncProviderRunning
            /\ gBackupState'.pollPeriod = InitialPollPeriod]_vars

\* C24: a tick that finds the thaw scripts or the freeze-fail scripts failed
\* finalizes the session and starts no other script operation.
C24_ScriptFailureIsNotRetried ==
  [][(/\ TickStep
      /\ OpFailedNow
      /\ gBackupState.currentOp \in {VMBACKUP_SCRIPT_THAW,
                                     VMBACKUP_SCRIPT_FREEZE_FAIL}) =>
       /\ gBackupState' = NoSession
       /\ nFinalize' = nFinalize + 1
       /\ ~Sent(last', ScriptErrorEvent)]_vars

\* C25: in every state in which a session exists, exactly one keep-alive
\* timer is scheduled.
C25_OneKeepAliveWhileSession ==
  SessionExists => gEventQueue.keepAlive = 1

\* C26: a tick that finds the current operation failed while the provider
\* is running, or while no script set exists, finalizes the session in that
\* same tick instead of scheduling another tick.
C26_OtherFailuresFinalize ==
  [][(/\ TickStep
      /\ OpFailedNow
      /\ (gBackupState.syncProviderRunning \/ ~gBackupState.scripts)) =>
       /\ gBackupState' = NoSession
       /\ nFinalize' = nFinalize + 1]_vars

\* C27: a tick that finds the freeze scripts failed, with the provider not
\* running and a script set present, first sends "req.error" with the
\* unexpected-error code, releases the failed operation, drops the pending
\* callback without invoking it, and then starts the freeze-fail scripts
\* with no callback; it finalizes in that tick only when the freeze-fail
\* scripts cannot be started.
C27_FreezeFailureStartsFreezeFail ==
  [][(/\ TickStep
      /\ OpFailedNow
      /\ gBackupState.currentOp = VMBACKUP_SCRIPT_FREEZE
      /\ ~gBackupState.syncProviderRunning
      /\ gBackupState.scripts) =>
       /\ last'.calls = {}
       /\ IF gBackupState' # NoSession
            THEN /\ last'.sent = <<UnexpectedErrorEvent>>
                 /\ gBackupState'.currentOp = VMBACKUP_SCRIPT_FREEZE_FAIL
                 /\ gBackupState'.currentOpName = "VmBackupOnFreezeFail"
                 /\ gBackupState'.callback = NULL
                 /\ opStatus' = VMBACKUP_STATUS_PENDING
                 /\ liveOps' = 1
                 /\ nFinalize' = nFinalize
                 /\ gEventQueue'.poll = 1
            ELSE /\ last'.sent = <<UnexpectedErrorEvent, ScriptErrorEvent,
                                   DoneEvent>>
                 /\ liveOps' = 0
                 /\ nFinalize' = nFinalize + 1]_vars

\* The freeze scripts failed and the tick started the freeze-fail scripts.
C27_Witness ==
  /\ SessionExists
  /\ last = [handler |-> "tick", sent |-> <<UnexpectedErrorEvent>>,
             calls |-> {}]
  /\ provStarts = 0
  /\ gBackupState.scripts
  /\ gBackupState.callback = NULL
  /\ gBackupState.currentOp = VMBACKUP_SCRIPT_FREEZE_FAIL
  /\ ~gBackupState.clientAborted

\* C28: after a tick that found the current operation failed, the callback
\* registered with that operation is not invoked; for the freeze scripts:
\* the tick that follows does not call the provider's start.
C28_NoCallbackAfterFailure ==
  [][(/\ TickStep
      /\ SessionExists
      /\ last.handler = "tick"
      /\ Sent(last, UnexpectedErrorEvent)
      /\ provStarts = 0) =>
       "provider.start" \notin last'.calls]_vars

ConcludedStep ==
  /\ TickStep
  /\ SessionExists
  /\ gBackupState.syncProviderRunning \/ provStarts' = provStarts + 1
  /\ ~Flag(gBackupState', "syncProviderRunning")

\* This step made the thaw scripts the current operation.
ThawStarted ==
  /\ gBackupState' # NoSession
  /\ gBackupState'.currentOp = VMBACKUP_SCRIPT_THAW
  /\ ~(SessionExists /\ gBackupState.currentOp = VMBACKUP_SCRIPT_THAW)

\* C30: a tick that concludes the provider starts the freeze-fail scripts
\* when syncProviderFailed or clientAborted is set and the thaw scripts
\* otherwise, and finalizes only when the scripts cannot be started; the
\* thaw scripts are started by such a tick only, with snapshotDone set and
\* neither syncProviderFailed nor clientAborted set.
C30_ConclusionPicksScripts ==
  [][/\ ConcludedStep =>
          IF gBackupState' # NoSession
            THEN /\ gBackupState'.currentOp =
                      IF \/ gBackupState'.syncProviderFailed
                         \/ gBackupState'.clientAborted
                        THEN VMBACKUP_SCRIPT_FREEZE_FAIL
                        ELSE VMBACKUP_SCRIPT_THAW
                 /\ gBackupState'.callback = NULL
                 /\ nFinalize' = nFinalize
                 /\ ~Sent(last', ScriptErrorEvent)
            ELSE /\ nFinalize' = nFinalize + 1
                 /\ Sent(last', ScriptErrorEvent)
     /\ ThawStarted =>
          /\ ConcludedStep
          /\ gBackupState'.snapshotDone
          /\ ~gBackupState'.syncProviderFailed
          /\ ~gBackupState'.clientAborted]_vars

\* An aborted session whose provider was concluded: the freeze-fail scripts
\* are current.
C30_Witness ==
  /\ SessionExists
  /\ last.handler = "tick"
  /\ provStarts = 1
  /\ ~gBackupState.syncProviderRunning
  /\ gBackupState.clientAborted
  /\ ~gBackupState.syncProviderFailed
  /\ gBackupState.currentOp = VMBACKUP_SCRIPT_FREEZE_FAIL


\* The tick finds the current operation still pending.
OpPendingNow ==
  /\ SessionExists
  /\ gBackupState.currentOp # NULL
  /\ opStatus = VMBACKUP_STATUS_PENDING

\* C31: a tick that finds the current suboperation still pending invokes no
\* step callback, starts and releases no suboperation, emits no event,
\* leaves pendingCallback, currentOperation, syncProviderRunning and the
\* three terminal flags as they were, and reschedules exactly one poll
\* tick, whatever flags are already set.
C31_PendingTickOnlyReschedules ==
  [][(TickStep /\ OpPendingNow) =>
       /\ last'.sent = <<>>
       /\ last'.calls = {}
       /\ events' = events
       /\ liveOps' = liveOps
       /\ opStatus' = opStatus
       /\ provSteps' = provSteps
       /\ provStarts' = provStarts
       /\ nFinalize' = nFinalize
       /\ gBackupState' = [gBackupState EXCEPT !.forceRequeue = FALSE,
                                               !.timerEvent = TRUE]
       /\ gEventQueue'.poll = 1
       /\ gEventQueue'.keepAlive = gEventQueue.keepAlive]_vars

\* A pending tick ran while a callback was waiting and a terminal flag was
\* already set.
C31_Witness ==
  /\ last.handler = "tick"
  /\ SessionExists
  /\ gBackupState.currentOp # NULL
  /\ opStatus = VMBACKUP_STATUS_PENDING
  /\ gBackupState.callback # NULL
  /\ gBackupState.clientAborted \/ gBackupState.snapshotDone
       \/ gBackupState.syncProviderFailed


\* C32: in the drain loop the pending callback is cleared before it is
\* invoked; after a callback reported continue the tick leaves the loop and
\* reschedules, without evaluating the provider conclusion or finalize,
\* exactly when that callback left a current operation or set forceRequeue;
\* otherwise the loop goes on with the next pending callback in the same
\* tick, until none is pending.
C32_DrainStopsOnNewWork ==
  /\ [](\A d \in TickDrains :
          /\ d.exit <=> (d.w.st.currentOp # NULL \/ d.w.st.forceRequeue)
          /\ d.exit => /\ ~d.fin
                       /\ d.w.st.callback \in {NULL, "ProviderStep"}
          /\ ~d.exit => d.w.st.callback = NULL)
  /\ [][(/\ TickStep
         /\ SessionExists
         /\ NoOpPending
         /\ gBackupState' # NoSession
         /\ gBackupState'.currentOp = "providerOp") =>
          /\ nFinalize' = nFinalize
          /\ gEventQueue'.poll = 1
          /\ gBackupState'.pollPeriod = gBackupState.pollPeriod
          /\ gBackupState'.syncProviderRunning
               = (gBackupState.syncProviderRunning
                    \/ provStarts' = provStarts + 1)
          /\ "provider.start" \in last'.calls
               \/ "provider.step" \in last'.calls
          /\ ~gBackupState'.forceRequeue]_vars

\* One tick invoked VmBackupEnableSync and, because the provider's start
\* only registered a callback, that callback as well.
C32_Witness ==
  /\ last.handler = "tick"
  /\ {"provider.start", "provider.step"} \subseteq last.calls


\* C33: every tick ends in exactly one of two ways: it calls
\* VmBackupFinalize, or it clears forceRequeue and schedules exactly one new
\* poll tick.  Hence, between handler executions, a session has exactly one
\* poll timer scheduled and forceRequeue false, and no poll timer is
\* scheduled without a session.
C33_TickFinalizesOrReschedules ==
  /\ [](IF SessionExists
          THEN /\ gEventQueue.poll = 1
               /\ gBackupState.timerEvent
               /\ ~gBackupState.forceRequeue
          ELSE gEventQueue.poll = 0)
  /\ [][TickStep =>
          /\ SessionExists
          /\ \/ /\ nFinalize' = nFinalize + 1
                /\ gBackupState' = NoSession
                /\ gEventQueue'.poll = 0
             \/ /\ nFinalize' = nFinalize
                /\ gBackupState' # NoSession
                /\ ~gBackupState'.forceRequeue
                /\ gBackupState'.timerEvent
                /\ gEventQueue'.poll = 1]_vars

\* A tick in which the provider's start asked to be called again
\* (forceRequeue) has rescheduled: the continuation is registered, no
\* operation is current, and forceRequeue is clear again.
C33_Witness ==
  /\ last.handler = "tick"
  /\ "provider.start" \in last.calls
  /\ "provider.step" \notin last.calls
  /\ SessionExists
  /\ gBackupState.callback = "ProviderStep"
  /\ gBackupState.currentOp = NULL
  /\ ~gBackupState.forceRequeue
  /\ gEventQueue.poll = 1


\* C34: the Abort and SnapshotDone handlers never run the drain logic: they
\* invoke no step callback, start no suboperation, neither schedule nor
\* cancel the poll timer, and leave pendingCallback, syncProviderRunning and
\* pollPeriod as they were; the flags they set are acted upon by a later
\* tick only.
C34_CommandsDoNotDrain ==
  [][((CmdStep("abort") \/ CmdStep("snapshotDone")) /\ SessionExists) =>
       /\ gBackupState' # NoSession
       /\ nFinalize' = nFinalize
       /\ last'.calls \subseteq
            {"op.cancel", "provider.abort", "provider.snapshotDone"}
       /\ provStarts' = provStarts
       /\ provSteps' = provSteps
       /\ liveOps' <= liveOps
       /\ gBackupState'.currentOp \in {gBackupState.currentOp, NULL}
       /\ gEventQueue'.poll = gEventQueue.poll
       /\ gBackupState'.timerEvent = gBackupState.timerEvent
       /\ gBackupState'.callback = gBackupState.callback
       /\ gBackupState'.syncProviderRunning
            = gBackupState.syncProviderRunning
       /\ gBackupState'.pollPeriod = gBackupState.pollPeriod
       /\ gBackupState'.forceRequeue = gBackupState.forceRequeue]_vars

\* An Abort was accepted while the provider was running and a callback was
\* waiting: both are still as they were when the handler returns.
C34_Witness ==
  /\ last.handler = "abort"
  /\ SessionExists
  /\ gBackupState.clientAborted
  /\ gBackupState.syncProviderRunning
  /\ gBackupState.callback # NULL


\* C35 (as stated): the poll period widens once the sync provider finishes:
\* after the tick that concludes the provider, pollPeriod is strictly
\* greater than the value the session was created with.
C35_PollPeriodWidens ==
  [][(ConcludedStep /\ gBackupState' # NoSession) =>
       gBackupState'.pollPeriod > NewState.pollPeriod]_vars

\* The provider runs and none of snapshotDone, syncProviderFailed,
\* clientAborted is set.
RunningUndisturbed ==
  /\ SessionExists
  /\ gBackupState.syncProviderRunning
  /\ ~gBackupState.snapshotDone
  /\ ~gBackupState.syncProviderFailed
  /\ ~gBackupState.clientAborted

C37_NoTimerWithoutSession ==
  /\ ~assertFailed
  /\ ~SessionExists => (gEventQueue.poll = 0 /\ gEventQueue.keepAlive = 0)

\* C38 (as stated): the provider's snapshotDone capability is invoked, and
\* snapshotDone is set, only while syncProviderRunning is true; so a
\* provider is never concluded by the tick that started it unless it failed
\* or the client aborted.
C38_SnapshotDoneOnlyWhileRunning ==
  [][/\ (CmdStep("snapshotDone")
           /\ "provider.snapshotDone" \in last'.calls) =>
          (SessionExists /\ gBackupState.syncProviderRunning)
     /\ (Flag(gBackupState', "snapshotDone")
           /\ ~(SameSession /\ gBackupState.snapshotDone)) =>
          (SessionExists /\ gBackupState.syncProviderRunning)
     /\ (TickStep /\ provStarts' = provStarts + 1
           /\ ~Flag(gBackupState', "syncProviderRunning")) =>
          \/ gBackupState.clientAborted
          \/ "callback.stop(running)" \in last'.calls]_vars


\* This step is VmBackup_Shutdown.
ShutdownStep == last'.handler = "shutdown" /\ ~shutDown

\* C39: Shutdown while a session exists finalizes that session exactly as a
\* tick would (the current suboperation is cancelled and released, the
\* "done" event is sent, both timers of the session are cancelled, the
\* session slot is cleared) before the sync provider is released; Shutdown
\* without a session sends no event.
C39_ShutdownFinalizes ==
  [][ShutdownStep =>
       /\ last'.calls \cap {"provider.release", "provider.release(session)"}
            = {"provider.release"}
       /\ gBackupState' = NoSession
       /\ IF SessionExists
            THEN /\ nFinalize' = nFinalize + 1
                 /\ last'.sent = <<DoneEvent>>
                 /\ nDone' = nDone + 1
                 /\ ("op.cancel" \in last'.calls)
                      <=> (gBackupState.currentOp # NULL)
                 /\ liveOps' = 0
                 /\ opStatus' = NULL
                 /\ gEventQueue'.poll = 0
                 /\ gEventQueue'.keepAlive
                      = gEventQueue.keepAlive
                          - (IF gBackupState.keepAlive THEN 1 ELSE 0)
            ELSE /\ nFinalize' = nFinalize
                 /\ last'.sent = <<>>
                 /\ last'.calls = {"provider.release"}
                 /\ events' = events
                 /\ nDone' = nDone
                 /\ gEventQueue' = gEventQueue]_vars

\* Shutdown found a session whose provider was running with an operation
\* in flight, and tore it down.
C39_Witness ==
  /\ shutDown
  /\ last.handler = "shutdown"
  /\ {"op.cancel", "finalize(running)", "provider.release"}
       \subseteq last.calls
  /\ last.sent = <<DoneEvent>>
  /\ gBackupState = NoSession
  /\ gEventQueue = [poll |-> 0, keepAlive |-> 0]

\* The line has a first character other than space and tab, and that
\* character is not the comment mark.
IsTargetLine(line) ==
  \E i \in 1..Len(line) :
    /\ line[i] \notin {" ", "\t", "#"}
    /\ \A j \in 1..(i - 1) : line[j] \in {" ", "\t"}

=============================================================================
